---- MODULE Spec2Model ----
(***************************************************************************)
(* Discord <-> GroupMe bridge (src/main.py).                               *)
(*                                                                         *)
(* The state is the module-level dictionaries of main.py; there is one     *)
(* action per event handler (on_message, on_reaction_add, the webhook      *)
(* POST handler, the cleanup task's loop body) and one for the clock.      *)
(* Every call to a collaborator (GroupMe REST API, Discord client) has a   *)
(* nondeterministic outcome chosen by the action that makes the call.      *)
(*                                                                         *)
(* Identifiers: Discord message ids are positive integers (snowflakes),    *)
(* GroupMe message ids are JSON strings and never equal a Discord id; they *)
(* are modelled as negative integers, 0 standing for a missing id.         *)
(* GroupMe poll ids are strings, "None" standing for Python's None (this   *)
(* is also what the f-strings of main.py turn None into).                  *)
(*                                                                         *)
(* Several specifications share the actions and differ in the events they *)
(* deliver: Spec (chat, commands, dropped events, Discord polls),          *)
(* SpecPolls (creation and end of polls of both platforms), SpecVotes      *)
(* (votes of both platforms), SpecRecent (a long stream of chat messages), *)
(* SpecClock (polls, the clock and the cleanup task) and SpecReply (chat   *)
(* messages that reply to another message) and SpecQuestions (polls with   *)
(* long questions); SpecThreads splits the polls command into the turns of *)
(* its loop, between which the webhook thread runs; SpecStart runs the     *)
(* start-up block of main.py in every environment.                         *)
(***************************************************************************)
EXTENDS Integers, Sequences, FiniteSets, TLC

VARIABLES
    token,                \* GROUPME_ACCESS_TOKEN is set (main.py:20)
    cleanup_task,         \* a task runs cleanup_old_polls (main.py:1864)
    now,                  \* time.time(), in seconds
    next_sent,            \* number of messages the bot has sent to Discord
    message_mapping,      \* main.py:44
    groupme_to_discord,   \* main.py:45
    recent_messages,      \* main.py:46, the list of the monitored channel
    poll_mapping,         \* main.py:49
    groupme_poll_mapping, \* main.py:50
    active_polls,         \* main.py:51
    poll_vote_tracking,   \* main.py:52
    cleanup_wake,         \* when the sleep of cleanup_old_polls ends
    vote_notices,         \* history: vote notifications delivered, per (poll, voter)
    iterating,            \* the loop over active_polls the main thread is in
    last,                 \* history: the event handled by the last step
    out                   \* history: the collaborator calls made by the last step

vars == <<token, cleanup_task, now, next_sent, message_mapping, groupme_to_discord,
          recent_messages, poll_mapping, groupme_poll_mapping, active_polls,
          poll_vote_tracking, cleanup_wake, vote_notices, iterating, last, out>>

\* the dictionaries of main.py:44-52
maps == <<message_mapping, groupme_to_discord, recent_messages, poll_mapping,
          groupme_poll_mapping, active_polls, poll_vote_tracking>>

\* the three poll dictionaries
polls == <<active_polls, poll_mapping, groupme_poll_mapping>>

(***************************************************************************)
(* Bounds of the model.                                                    *)
(***************************************************************************)
MaxSent == 2         \* messages the bot sends to Discord and keeps the id of
MaxNotices == 2      \* vote notifications counted by the history variable
MaxRecent == 1       \* entries of recent_messages explored when ids repeat
MaxArrivals == 22    \* messages of the stream whose ids grow with arrival
Horizon == 93600     \* the clock stops there (26 hours)

(***************************************************************************)
(* Program constants.                                                      *)
(***************************************************************************)
PollLifetime == 86400
CleanupSleep == 3600
RecentCapacity == 20
MinOptions == 2
Created == 201
Accepted == 202
MaxPollOptions == 10
GroupMeOptionCap == 160
GroupMeSubjectCap == 160
DiscordOptionCap == 55
ReplyBodyCap == 100
QuoteCap == 50

(***************************************************************************)
(* Input domains.                                                          *)
(***************************************************************************)
ClockSteps == {1800}
\* ids of the Discord messages written by users, and of those the bot sends
UserMsgIds == {1}
SentMsgIds == {Cardinality(UserMsgIds) + n : n \in 1..MaxSent}
GroupMeMsgIds == {-1}
GroupMePollIds == {"p1"}
None == "None"
Voters == {"ann"}

\* s[:n] of Python
Slice(s, n) == IF Len(s) <= n THEN s ELSE SubSeq(s, 1, n)

\* text repeated n times
RECURSIVE Repeat(_, _)
Repeat(text, n) == IF n = 0 THEN "" ELSE text \o Repeat(text, n - 1)

\* a poll with more options than a platform takes, the first longer than
\* the cap of GroupMe, the second longer than the cap of Discord only
LongPoll ==
    [i \in 1..(MaxPollOptions + 1) |->
        IF i = 1 THEN Repeat("0123456789", 17)
        ELSE IF i = 2 THEN Repeat("abcdef", 10)
        ELSE "option " \o ToString(i)]

\* option lists of a poll
OptionLists == {<<>>, <<"Red">>, <<"Red", "Blue">>, LongPoll}
NoPoll == <<"no poll">>
\* reactions: one emoji of EMOJI_MAPPING, one keycap (not in EMOJI_MAPPING)
Emojis == {"thumbsup", "keycap1"}
EMOJI_MAPPING == {"thumbsup"}
\* the emojis Discord shows with the answers of a poll: answer i carries
\* AnswerEmojis[i] (the poll object kept in the record, main.py:425)
AnswerEmojis == <<"thumbsup", "keycap1">>
\* outcome of POST /bots/post: 202, an error status, or an exception (0)
PostStatuses == {0, Accepted, 500}

\* the threads of the process: the main thread runs bot.run and with it the
\* handlers of the Discord events (main.py:1869); health_thread runs
\* run_health_server, whose own event loop serves /groupme/webhook
\* (main.py:1858, main.py:124-127)
MainThread == "main"
HealthThread == "health"

\* no loop over a dictionary is in progress on the main thread
Idle == [by |-> "none", used |-> 0, seen |-> 0]

Range(s) == {s[i] : i \in DOMAIN s}

\* d[k] = v after the assignment, every other key unchanged
Put(d, k, v) == [x \in DOMAIN d \cup {k} |-> IF x = k THEN v ELSE d[x]]

\* d.pop(k, None)
Pop(d, k) == [x \in DOMAIN d \ {k} |-> d[x]]

Empty == [x \in {} |-> 0]

\* one collaborator call made while handling an event; ok is what the
\* collaborator answered (success or not), whatever the caller makes of it;
\* options is the option list of the poll the call asks for
PollCall(api, kind, ok, options) ==
    [api |-> api, kind |-> kind, ok |-> ok, options |-> options, text |-> "",
     emojis |-> <<>>]

\* a call that posts text
TextCall(api, kind, ok, text) ==
    [api |-> api, kind |-> kind, ok |-> ok, options |-> <<>>, text |-> text,
     emojis |-> <<>>]

\* a call that creates a poll: its question, options and their emojis
QuestionCall(api, kind, ok, options, emojis, text) ==
    [api |-> api, kind |-> kind, ok |-> ok, options |-> options, text |-> text,
     emojis |-> emojis]

Call(api, kind, ok) == PollCall(api, kind, ok, <<>>)

\* the fresh id Discord gives the next message the bot sends
SentId == Cardinality(UserMsgIds) + next_sent + 1

\* responses of POST /poll/{group_id}: 201 with the new poll's id (or a body
\* without an id), an error status, or an exception (status 0)
CreateResponses ==
    {[status |-> Created, id |-> g] :
        g \in (GroupMePollIds \ DOMAIN groupme_poll_mapping) \cup {None}}
    \cup {[status |-> s, id |-> None] : s \in {0, 500}}

\* responses of GET /poll/{poll_id}: the poll's data, an error status or an
\* exception
ShowResponses ==
    {[status |-> 200, options |-> o] : o \in OptionLists}
    \cup {[status |-> s, options |-> <<>>] : s \in {0, 500}}

\* the option test with its limit one too low
TooFewOptions_m(options) == Len(options) < MinOptions - 1

\* main.py:380  if not options or len(options) < 2
TooFewOptions(options) == Len(options) < MinOptions

\* main.py:204  if len(options) < 2
InsufficientOptions(options) == Len(options) < MinOptions

\* the status test taking every answered request for a created poll
PollCreated_m(resp) == resp.status # 0

\* main.py:414  if resp.status == 201
PollCreated(resp) == resp.status = Created

\* main.py:545  poll_data.get('option_emojis', [])
OptionEmojis(poll_data) ==
    IF "option_emojis" \in DOMAIN poll_data THEN poll_data["option_emojis"] ELSE <<>>

\* the options cut to the cap, and none left out
GroupMePollOptions_m(options) ==
    [i \in DOMAIN options |-> Slice(options[i], GroupMeOptionCap)]

\* main.py:386-387  for option in options[:10]: {"title": option[:160]}
GroupMePollOptions(options) ==
    [i \in DOMAIN Slice(options, MaxPollOptions) |->
        Slice(Slice(options, MaxPollOptions)[i], GroupMeOptionCap)]

\* main.py:229-232  for i, option in enumerate(options[:10]): option[:55]
DiscordPollOptions(options) ==
    [i \in DOMAIN Slice(options, MaxPollOptions) |->
        Slice(Slice(options, MaxPollOptions)[i], DiscordOptionCap)]

\* the bar-chart emoji U+1F4CA, one character as in Python
ChartMark == "#"

\* the code points U+FE0F (emoji presentation) and U+20E3 (enclosing keycap)
\* and the emoji U+1F51F (keycap ten)
Selector == "[fe0f]"

KeycapMark == "[20e3]"

KeycapTen == "[1f51f]"

\* main.py:873, 1128, 1737
option_emojis ==
    [i \in 1..10 |-> IF i < 10 THEN ToString(i) \o Selector \o KeycapMark
                     ELSE KeycapTen]

\* main.py:229-231: the emoji of the answer at index i - 1 is f"{i}\u20e3"
DiscordPollEmojis(options) ==
    [i \in DOMAIN Slice(options, MaxPollOptions) |-> ToString(i) \o KeycapMark]

\* main.py:235
DiscordQuestion(question, author_name) ==
    ChartMark \o " " \o question \o " (from " \o author_name \o ")"

\* main.py:396
GroupMeSubject(question) == Slice(question, GroupMeSubjectCap)

\* parse_groupme_poll_text is called at main.py:329 and main.py:867 and is
\* defined nowhere in main.py: the call raises NameError
parse_groupme_poll_text(text) ==
    [raised |-> TRUE, question |-> "", options |-> <<>>]

\* the result of a call that leaves the poll dictionaries alone
PollsUnchanged(ok, calls) ==
    [ok |-> ok, ap |-> active_polls, pm |-> poll_mapping,
     gpm |-> groupme_poll_mapping, calls |-> calls]

\* main.py:343-448
create_groupme_poll_from_discord(question, options, author_name, message_id, resp) ==
    LET calls == <<QuestionCall("groupme.poll.create", "poll", resp.status = Created,
                                GroupMePollOptions(options), <<>>,
                                GroupMeSubject(question))>>
    IN
    IF ~token THEN PollsUnchanged(FALSE, <<>>)
    ELSE IF TooFewOptions(options) THEN PollsUnchanged(FALSE, <<>>)
    ELSE IF PollCreated(resp)
    THEN LET poll_id == "discord_" \o ToString(message_id) IN
         [ok |-> TRUE,
          ap |-> Put(active_polls, poll_id,
                     [discord_message |-> message_id,
                      groupme_poll_id |-> resp.id,
                      author |-> author_name,
                      created_at |-> now,
                      source |-> "discord",
                      options |-> options]),
          pm |-> Put(poll_mapping, message_id, poll_id),
          gpm |-> Put(groupme_poll_mapping, resp.id, poll_id),
          calls |-> calls]
    ELSE PollsUnchanged(FALSE, calls)

\* main.py:220-262; sent is the id of the message channel.send(poll=poll)
\* returned, 0 when the call raised
create_discord_poll_from_groupme_native(question, options, groupme_poll_id, author_name, sent) ==
    IF sent # 0
    THEN LET poll_id == "groupme_" \o groupme_poll_id IN
         [ok |-> TRUE,
          ap |-> Put(active_polls, poll_id,
                     [discord_message |-> sent,
                      groupme_poll_id |-> groupme_poll_id,
                      author |-> author_name,
                      created_at |-> now,
                      source |-> "groupme",
                      options |-> options]),
          pm |-> poll_mapping,
          gpm |-> Put(groupme_poll_mapping, groupme_poll_id, poll_id),
          calls |-> <<QuestionCall("discord.send", "poll", TRUE,
                                   DiscordPollOptions(options),
                                   DiscordPollEmojis(options),
                                   DiscordQuestion(question, author_name))>>]
    ELSE PollsUnchanged(FALSE, <<QuestionCall("discord.send", "poll", FALSE,
                                              DiscordPollOptions(options),
                                              DiscordPollEmojis(options),
                                              DiscordQuestion(question, author_name))>>)

\* the i-th character of s, "" past its end
Char(s, i) == IF i \in 1..Len(s) THEN SubSeq(s, i, i) ELSE ""

\* s[n:] of Python
Drop(s, n) == IF n >= Len(s) THEN "" ELSE SubSeq(s, n + 1, Len(s))

\* the characters \w and \s match, among those of the texts explored
WordChars ==
    {Char("abcdefghijklmnopqrstuvwxyzABCDEFGHIJKLMNOPQRSTUVWXYZ0123456789_", i) :
        i \in 1..63}

Spaces == {" ", "\n", "\t"}

StartsWith(s, prefix) == Len(s) >= Len(prefix) /\ SubSeq(s, 1, Len(prefix)) = prefix

\* sub in s of Python
Contains(s, sub) == \E n \in 0..Len(s) : StartsWith(Drop(s, n), sub)

\* s.lower() of Python, on the letters of the texts explored
RECURSIVE Lower(_)
Lower(s) ==
    LET upper == "ABCDEFGHIJKLMNOPQRSTUVWXYZ"
        lower == "abcdefghijklmnopqrstuvwxyz"
        c == Char(s, 1)
    IN  IF s = "" THEN ""
        ELSE (IF \E i \in 1..26 : Char(upper, i) = c
              THEN Char(lower, CHOOSE i \in 1..26 : Char(upper, i) = c)
              ELSE c) \o Lower(Drop(s, 1))

\* main.py:811
poll_keywords == {"poll:", ChartMark, "vote:", "survey:"}

\* main.py:1489, after its emoji
TestText == "Enhanced bridge test message with poll support from Google Cloud Run!"

\* a chat text that announces a poll
PollText == "Poll: Best pet? 1 Dog 2 Cat 3 Fish"

Max(S) == CHOOSE n \in S : \A m \in S : m <= n

Min(S) == CHOOSE n \in S : \A m \in S : n <= m

\* the length of the longest prefix of s made of characters of class
RECURSIVE Run(_, _)
Run(s, class) ==
    IF s # "" /\ Char(s, 1) \in class THEN 1 + Run(Drop(s, 1), class) ELSE 0

\* the result of re.match when the pattern does not match
NoMatch == <<>>

\* \s*(.+) for least = 0 and \s+(.+) for least = 1, matched at the start of
\* s with re.DOTALL: the greedy run of spaces gives characters back until
\* one is left for the group; the result is <<group>> or NoMatch
SpacesThenRest(s, least) ==
    LET taken == {k \in least..Run(s, Spaces) : k < Len(s)} IN
    IF taken = {} THEN NoMatch ELSE <<Drop(s, Max(taken))>>

\* main.py:618  ^Reply to @(\w+):\s*(.+)
ReplyToPattern(s) ==
    IF ~StartsWith(s, "Reply to @") THEN NoMatch
    ELSE LET r == Drop(s, 10)
             u == Run(r, WordChars)
         IN  IF u = 0 \/ Char(r, u + 1) # ":" THEN NoMatch
             ELSE LET g == SpacesThenRest(Drop(r, u + 1), 0) IN
                  IF g = NoMatch THEN NoMatch ELSE <<SubSeq(r, 1, u), g[1]>>

\* the mention pattern with the spaces kept in the second group
MentionPattern_m(s) ==
    IF ~StartsWith(s, "@") THEN NoMatch
    ELSE LET r == Drop(s, 1)
             u == Run(r, WordChars)
         IN  IF u = 0 \/ Drop(r, u) = "" THEN NoMatch
             ELSE <<SubSeq(r, 1, u), Drop(r, u)>>

\* main.py:619  ^@(\w+)\s+(.+)
MentionPattern(s) ==
    IF ~StartsWith(s, "@") THEN NoMatch
    ELSE LET r == Drop(s, 1)
             u == Run(r, WordChars)
         IN  IF u = 0 THEN NoMatch
             ELSE LET g == SpacesThenRest(Drop(r, u), 1) IN
                  IF g = NoMatch THEN NoMatch ELSE <<SubSeq(r, 1, u), g[1]>>

\* main.py:620  ^>\s*(.+?)\n(.+)  : k spaces (as many as possible), then m
\* characters (as few as possible), a newline and at least one more character
BlockquotePattern(s) ==
    IF ~StartsWith(s, ">") THEN NoMatch
    ELSE LET r == Drop(s, 1)
             fits == {km \in (0..Run(r, Spaces)) \X (1..Len(r)) :
                         /\ km[1] + km[2] + 1 < Len(r)
                         /\ Char(r, km[1] + km[2] + 1) = "\n"}
         IN  IF fits = {} THEN NoMatch
             ELSE LET k == Max({km[1] : km \in fits})
                      m == Min({km[2] : km \in {f \in fits : f[1] = k}})
                  IN  <<SubSeq(r, k + 1, k + m), Drop(r, k + m + 1)>>

\* main.py:621  ^"(.+?)"\s*(.+)
QuotedPattern(s) ==
    IF ~StartsWith(s, "\"") THEN NoMatch
    ELSE LET r == Drop(s, 1)
             ms == {m \in 1..Len(r) :
                       /\ Char(r, m + 1) = "\""
                       /\ SpacesThenRest(Drop(r, m + 1), 0) # NoMatch}
         IN  IF ms = {} THEN NoMatch
             ELSE <<SubSeq(r, 1, Min(ms)), SpacesThenRest(Drop(r, Min(ms) + 1), 0)[1]>>

\* main.py:615-630: the two groups of the first pattern that matches, or
\* (None, message_content)
detect_reply_context(message_content) ==
    IF ReplyToPattern(message_content) # NoMatch THEN ReplyToPattern(message_content)
    ELSE IF MentionPattern(message_content) # NoMatch
    THEN MentionPattern(message_content)
    ELSE IF BlockquotePattern(message_content) # NoMatch
    THEN BlockquotePattern(message_content)
    ELSE IF QuotedPattern(message_content) # NoMatch
    THEN QuotedPattern(message_content)
    ELSE <<None, message_content>>

\* the text of a message: the content "empty" stands for the empty text
Text(content) == IF content = "empty" THEN "" ELSE content

\* not content.strip()
Blank(content) == Run(Text(content), Spaces) = Len(Text(content))

\* reply_context = None
NoContext == <<>>

\* the arrow emoji that starts the prefix of a reply
ReplyMark == "=> "

\* the reply pattern of the text ignored when a reference is given
FormatMessage_m(message_text, author_name, reply_context) ==
    LET d == detect_reply_context(message_text) IN
    IF d[1] # None
    THEN ReplyMark \o "Replying to " \o d[1] \o ":\n\n" \o author_name \o ": " \o d[2]
    ELSE IF reply_context # NoContext
    THEN ReplyMark \o "Replying to " \o reply_context[2] \o ": \""
         \o Slice(reply_context[1], QuoteCap)
         \o (IF Len(reply_context[1]) > QuoteCap THEN "..." ELSE "")
         \o "\"\n\n" \o author_name \o ": " \o message_text
    ELSE author_name \o ": " \o message_text

\* main.py:635-643: the text of the post
FormatMessage(message_text, author_name, reply_context) ==
    IF reply_context # NoContext
    THEN ReplyMark \o "Replying to " \o reply_context[2] \o ": \""
         \o Slice(reply_context[1], QuoteCap)
         \o (IF Len(reply_context[1]) > QuoteCap THEN "..." ELSE "")
         \o "\"\n\n" \o author_name \o ": " \o message_text
    ELSE LET d == detect_reply_context(message_text) IN
         IF d[1] # None
         THEN ReplyMark \o "Replying to " \o d[1] \o ":\n\n"
              \o author_name \o ": " \o d[2]
         ELSE IF ~Blank(message_text)
         THEN author_name \o ": " \o message_text
         ELSE author_name \o " sent an image"

\* the post made again when it was not accepted
send_to_groupme_m(message_text, author_name, reply_context, kind, status) ==
    IF status = Accepted
    THEN <<TextCall("groupme.post", kind, TRUE,
                    FormatMessage(message_text, author_name, reply_context))>>
    ELSE <<TextCall("groupme.post", kind, FALSE,
                    FormatMessage(message_text, author_name, reply_context)),
           TextCall("groupme.post", kind, FALSE,
                    FormatMessage(message_text, author_name, reply_context))>>

\* main.py:632-668: one POST to /bots/post; the function returns status = 202
\* and catches every exception of the request
send_to_groupme(message_text, author_name, reply_context, kind, status) ==
    <<TextCall("groupme.post", kind, status = Accepted,
               FormatMessage(message_text, author_name, reply_context))>>

\* main.py:578-613: returns a URL (TRUE) or None; no request without the token
upload_image_to_groupme(uploaded) ==
    IF ~token THEN [url |-> FALSE, calls |-> <<>>]
    ELSE [url |-> uploaded, calls |-> <<Call("groupme.upload", "image", uploaded)>>]

\* the indices of the image attachments of a message
Images(attachments) == {i \in DOMAIN attachments : attachments[i] = "image"}

\* main.py:839-858: the posts made for the attachments of one message
RECURSIVE RelayAttachments(_, _, _, _, _)
RelayAttachments(message, reply_context, i, uploaded, status) ==
    IF i > Len(message.attachments) THEN <<>>
    ELSE (IF message.attachments[i] = "image"
          THEN LET groupme_image_url == upload_image_to_groupme(uploaded[i]) IN
               groupme_image_url.calls
               \o send_to_groupme(
                      IF groupme_image_url.url THEN Text(message.content)
                      ELSE Text(message.content) \o " [Image upload failed]",
                      message.author, reply_context, "chat", status[i])
          ELSE send_to_groupme(Text(message.content) \o " [Attached: file]",
                               message.author, reply_context, "chat", status[i]))
         \o RelayAttachments(message, reply_context, i + 1, uploaded, status)

\* main.py:839-858: the number of calls of send_to_groupme
Posts(message) ==
    IF message.attachments # <<>> THEN Len(message.attachments)
    ELSE IF ~Blank(message.content) THEN 1 ELSE 0

\* main.py:839-858
RelayChat(message, reply_context, uploaded, status) ==
    IF message.attachments # <<>>
    THEN RelayAttachments(message, reply_context, 1, uploaded, status)
    ELSE IF ~Blank(message.content)
         THEN send_to_groupme(Text(message.content), message.author, reply_context,
                              "chat", status[1])
         ELSE <<>>

\* the newest entry dropped on overflow
AppendRecent_m(message) ==
    LET appended == Append(recent_messages,
                           [author |-> message.author,
                            content |-> message.content,
                            timestamp |-> now,
                            message_id |-> message.id])
    IN  IF Len(appended) > RecentCapacity
        THEN SubSeq(appended, 1, RecentCapacity) ELSE appended

\* main.py:817-828
AppendRecent(message) ==
    LET appended == Append(recent_messages,
                           [author |-> message.author,
                            content |-> message.content,
                            timestamp |-> now,
                            message_id |-> message.id])
    IN  IF Len(appended) > RecentCapacity THEN Tail(appended) ELSE appended

\* the prefix test never taken
IsCommand_m(message) == FALSE

\* main.py:734  message.content.startswith('!')
IsCommand(message) == message.content = "command"

\* the poll test never taken
HasPoll_m(message) == FALSE

\* main.py:739-765  has_poll and poll_obj
HasPoll(message) == message.poll # NoPoll

\* main.py:809-815  any(keyword in content_lower for keyword in poll_keywords)
\* a chat text with a poll keyword and no options
QuestionText == "poll: anyone around?"

\* chat texts with and without the marks of a reply
ReplyTexts ==
    {"@alice great point", "Just chatting", "Reply to @bob: hi there",
     "Reply to @bob:", "> quoted\nanswer", "\"quoted\" answer", "@alice",
     "@carol   thanks", "   ", QuestionText}

\* the contents of the messages and payloads explored
Contents ==
    {"empty", "plain", "command", PollText} \cup ReplyTexts

\* main.py:812-813, for every content explored
WithPollKeyword ==
    {c \in Contents : \E keyword \in poll_keywords : Contains(Lower(c), keyword)}

HasPollKeyword(message) == message.content \in WithPollKeyword

\* main.py:174-175
WithPollText ==
    {c \in Contents : Contains(Lower(c), "poll:") \/ Contains(c, ChartMark)}

HasPollText(message_text) == message_text \in WithPollText

\* main.py:878: the label of the option at index i - 1
TextPollLabel(i) ==
    IF i <= Len(option_emojis) THEN option_emojis[i] ELSE ToString(i) \o "."

RECURSIVE TextPollLines(_, _)
TextPollLines(options, i) ==
    IF i > Len(options) THEN ""
    ELSE TextPollLabel(i) \o " " \o options[i] \o "\n" \o TextPollLines(options, i + 1)

\* main.py:875-881, the ballot-box emoji U+1F5F3 U+FE0F at its end
TextPoll(author_name, poll_data) ==
    ChartMark \o " Poll from " \o author_name \o ": " \o poll_data.question \o "\n\n"
    \o TextPollLines(Slice(poll_data.options, MaxPollOptions), 1)
    \o "\nReact with the corresponding number to vote! [1f5f3]" \o Selector

\* main.py:863-891: handle_text_based_poll; the parser raises and the except
\* clause replies, TRUE when that reply is delivered
handle_text_based_poll(message, replied, status) ==
    LET poll_data == parse_groupme_poll_text(message.content) IN
    IF poll_data.raised
    THEN [raised |-> ~replied, calls |-> <<Call("discord.reply", "error", replied)>>]
    ELSE IF Len(poll_data.options) >= MinOptions
    THEN [raised |-> status = Accepted /\ ~replied,
          calls |-> send_to_groupme(TextPoll(message.author, poll_data), "Poll Bot",
                                    NoContext, "textpoll", status)
                    \o (IF status = Accepted
                        THEN <<Call("discord.add_reaction", "ok", TRUE),
                               Call("discord.reply", "ok", replied)>>
                        ELSE <<>>)]
    ELSE [raised |-> FALSE, calls |-> <<>>]

\* what the history variable keeps of a Discord message; raised is TRUE
\* when an exception left on_message or the function of the command
MessageEvent(message, raised) ==
    [handler |-> "on_message",
     thread |-> MainThread,
     id |-> message.id,
     options |-> IF message.poll # NoPoll THEN message.poll ELSE <<>>,
     bot |-> message.bot,
     monitored |-> message.monitored,
     content |-> message.content,
     attachments |-> Len(message.attachments),
     poll |-> message.poll # NoPoll,
     few |-> message.poll # NoPoll /\ Len(message.poll) < MinOptions,
     raised |-> raised]

\* a Discord message as on_message reads it
Message(id, bot, monitored, content, command, poll, attachments, reference) ==
    [id |-> id, bot |-> bot, monitored |-> monitored, author |-> "alice",
     content |-> content, command |-> command, poll |-> poll,
     question |-> IF poll = NoPoll THEN "" ELSE "Best pet?",
     attachments |-> attachments, reference |-> reference]

\* messages on_message drops: written by a bot, or in another channel
DroppedMessages ==
    {Message(1, b, m, c, IF c = "command" THEN "status" ELSE "none", p, <<>>, FALSE) :
        b \in {TRUE}, m \in BOOLEAN, c \in {"plain", PollText, "command"},
        p \in {NoPoll, <<"Red", "Blue">>}}
    \cup
    {Message(1, FALSE, FALSE, c, IF c = "command" THEN "status" ELSE "none", p,
             <<>>, FALSE) :
        c \in {"plain", PollText, "command"}, p \in {NoPoll, <<"Red", "Blue">>}}

\* commands written in the monitored channel
CommandMessages(commands) ==
    {Message(1, FALSE, TRUE, "command", c, p, <<>>, FALSE) :
        c \in commands, p \in {NoPoll, <<"Red", "Blue">>}}

\* messages of the monitored channel that carry a native poll
NativePollMessages(ids, options) ==
    {Message(i, FALSE, TRUE, "plain", "none", p, <<>>, FALSE) :
        i \in ids, p \in options}

\* chat messages of the monitored channel: text, replies, attachments
ChatMessages(ids) ==
    {Message(i, FALSE, TRUE, c, "none", NoPoll, <<>>, FALSE) :
        i \in ids, c \in {"empty", "plain", PollText}}
    \cup {Message(i, FALSE, TRUE, "plain", "none", NoPoll, <<>>, TRUE) : i \in ids}
    \cup {Message(i, FALSE, TRUE, c, "none", NoPoll, a, FALSE) :
        i \in ids, c \in {"empty", "plain"},
        a \in {<<"image">>, <<"image", "file">>}}

\* the id Discord gives the next message of the channel when ids grow with
\* arrival: one more than the id of the newest message seen
NextMsgId ==
    IF recent_messages = <<>> THEN 1
    ELSE recent_messages[Len(recent_messages)].message_id + 1

\* the next chat message of such a stream, a reply or not
StreamMessages ==
    {Message(NextMsgId, FALSE, TRUE, "plain", "none", NoPoll, <<>>, r) :
        r \in {x \in BOOLEAN : NextMsgId <= MaxArrivals}}

\* the Discord messages delivered to on_message
Messages ==
    DroppedMessages \cup CommandMessages({"test", "nativepoll", "status", "pollinfo"})
    \cup NativePollMessages(UserMsgIds, {<<"Red", "Blue">>}) \cup ChatMessages(UserMsgIds)

\* bot.process_commands for a message of the monitored channel that starts
\* with the prefix: the command bodies of main.py:684-1803, by their effects
\* outside Discord.  testpoll (main.py:1494-1529) and polltest
\* (main.py:893-973) send a poll to Discord and hand it to
\* create_groupme_poll_from_discord; test, textpoll, simplepoll, react and
\* testgroupme post to /bots/post; nativepoll and groupmetest post to
\* /poll/{group_id} and track nothing; pollinfo (main.py:1302-1442) fetches
\* a poll; the others only answer on Discord.
process_commands(message, sent, resp, status, show) ==
    IF message.command = "pollinfo"
    THEN IF token
         THEN PollsUnchanged(show.status = 200,
                             <<Call("groupme.poll.show", "command", show.status = 200),
                               Call("discord.send", "command", TRUE)>>)
         ELSE PollsUnchanged(FALSE, <<Call("discord.send", "command", TRUE)>>)
    ELSE IF message.command = "testpoll"
    THEN IF sent
         THEN LET r == create_groupme_poll_from_discord(
                           "What's your favorite color?", <<"Red", "Blue", "Green">>,
                           message.author, SentId, resp)
              IN  [r EXCEPT !.calls = <<Call("discord.send", "poll", TRUE)>> \o @]
         ELSE PollsUnchanged(FALSE, <<Call("discord.send", "poll", FALSE)>>)
    ELSE IF message.command = "test"
    THEN PollsUnchanged(TRUE, send_to_groupme(TestText, "Bot Test",
                                              NoContext, "command", status))
    ELSE IF message.command = "nativepoll"
    THEN IF token
         THEN PollsUnchanged(TRUE, <<Call("groupme.poll.create", "command",
                                          resp.status = Created)>>)
         ELSE PollsUnchanged(FALSE, <<Call("discord.send", "command", TRUE)>>)
    ELSE PollsUnchanged(TRUE, <<Call("discord.send", "command", TRUE)>>)

\* main.py:1302-1442: get_poll_info returns when the token is missing or the
\* poll is not found; otherwise it runs on into the statements that follow
\* its try block, the last of which (main.py:1442) reads the undefined name
\* message and raises NameError
CommandRaises(message, show) ==
    message.command = "pollinfo" /\ token /\ show.status = 200

\* the outcomes of the calls a command makes: the send of the poll message,
\* the response of POST /poll/{group_id}, the status of POST /bots/post,
\* the response of GET /poll/{poll_id}
CommandShows(message) ==
    IF message.command = "pollinfo"
    THEN {[status |-> s, options |-> <<"Red", "Blue">>] : s \in {0, 200, 500}}
    ELSE {[status |-> 0, options |-> <<>>]}

CommandSends(message) == IF message.command = "testpoll" THEN BOOLEAN ELSE {TRUE}

CommandResponses(message) ==
    IF message.command \in {"testpoll", "nativepoll"} THEN CreateResponses
    ELSE {[status |-> 0, id |-> None]}

CommandStatuses(message) == IF message.command = "test" THEN PostStatuses ELSE {0}

\* the outcomes of the calls the relay of a chat message makes
TextPollReplies(message) == IF HasPollKeyword(message) THEN BOOLEAN ELSE {TRUE}

\* the outcomes of the post of a text poll
TextPollStatuses(message) ==
    IF HasPollKeyword(message) /\ ~parse_groupme_poll_text(message.content).raised
    THEN {Accepted, 500} ELSE {Accepted}

Fetches(message) == IF message.reference THEN BOOLEAN ELSE {TRUE}

\* the messages a reply refers to: a short one and one longer than the cap
ReferencedMessages(message) ==
    IF message.reference
    THEN {[content |-> c, author |-> "bob"] :
             c \in {"see you at noon", Repeat("0123456789", 12)}}
    ELSE {[content |-> "", author |-> "bob"]}

\* main.py:831-837
ReplyContext(message, fetched, replied_message) ==
    IF message.reference /\ fetched
    THEN <<Slice(replied_message.content, ReplyBodyCap), replied_message.author>>
    ELSE NoContext

Uploads(message) == [Images(message.attachments) -> BOOLEAN]

RelayStatuses(message) ==
    IF message.attachments = <<>> /\ ~Blank(message.content)
    THEN [1..1 -> PostStatuses]
    ELSE [1..Len(message.attachments) -> {Accepted, 500}]

\* main.py:723-861
on_message(message) ==
    /\ iterating = Idle
    /\ UNCHANGED <<token, cleanup_task, now, message_mapping, groupme_to_discord,
                   poll_vote_tracking, cleanup_wake, vote_notices, iterating>>
    /\ IF message.bot
       THEN \* main.py:726
            /\ last' = MessageEvent(message, FALSE)
            /\ out' = <<>>
            /\ UNCHANGED <<next_sent, recent_messages, polls>>
       ELSE IF ~message.monitored
       THEN \* main.py:861: every command refuses to act outside the channel
            /\ last' = MessageEvent(message, FALSE)
            /\ out' = IF message.content = "command"
                      THEN <<Call("discord.send", "command", TRUE)>> ELSE <<>>
            /\ UNCHANGED <<next_sent, recent_messages, polls>>
       ELSE IF IsCommand(message)
       THEN \* main.py:734-737
            \E sent \in CommandSends(message), resp \in CommandResponses(message),
               status \in CommandStatuses(message), show \in CommandShows(message) :
                LET r == process_commands(message, sent, resp, status, show) IN
                /\ (message.command = "testpoll" /\ sent) => next_sent < MaxSent
                /\ last' = MessageEvent(message, CommandRaises(message, show))
                /\ out' = r.calls
                /\ active_polls' = r.ap
                /\ poll_mapping' = r.pm
                /\ groupme_poll_mapping' = r.gpm
                /\ next_sent' = IF message.command = "testpoll" /\ sent
                                THEN next_sent + 1 ELSE next_sent
                /\ UNCHANGED recent_messages
       ELSE IF HasPoll(message)
       THEN \* main.py:765-802: when add_reaction raises, the except clause
            \* calls it again and the exception leaves on_message
            \E resp \in CreateResponses, reacted \in BOOLEAN :
                LET r == create_groupme_poll_from_discord(
                             message.question, message.poll, message.author,
                             message.id, resp)
                IN
                /\ last' = MessageEvent(message, ~reacted)
                /\ out' = r.calls
                          \o <<Call("discord.add_reaction",
                                    IF r.ok THEN "ok" ELSE "error", reacted)>>
                          \o (IF ~r.ok /\ reacted
                              THEN <<Call("discord.reply", "error", TRUE)>>
                              ELSE <<>>)
                /\ active_polls' = r.ap
                /\ poll_mapping' = r.pm
                /\ groupme_poll_mapping' = r.gpm
                /\ UNCHANGED <<next_sent, recent_messages>>
       ELSE \* main.py:804-858
            \E replied \in TextPollReplies(message), fetched \in Fetches(message),
               uploaded \in Uploads(message), status \in RelayStatuses(message),
               replied_message \in ReferencedMessages(message),
               polled \in TextPollStatuses(message) :
                LET t == IF HasPollKeyword(message)
                         THEN handle_text_based_poll(message, replied, polled)
                         ELSE [raised |-> FALSE, calls |-> <<>>]
                    reply_context == ReplyContext(message, fetched, replied_message)
                IN
                IF t.raised
                THEN \* the reply of the except clause raises and on_message
                     \* ends there
                     /\ last' = MessageEvent(message, TRUE)
                     /\ out' = t.calls
                     /\ UNCHANGED <<next_sent, recent_messages, polls>>
                ELSE /\ \/ Len(recent_messages) < MaxRecent
                        \/ message.id > Len(recent_messages)
                     /\ last' = MessageEvent(message, FALSE)
                     /\ out' = t.calls
                               \o (IF message.reference
                                   THEN <<TextCall("discord.fetch_message", "reply",
                                                   fetched,
                                                   IF fetched THEN replied_message.content
                                                   ELSE "")>>
                                   ELSE <<>>)
                               \o RelayChat(message, reply_context, uploaded, status)
                     /\ recent_messages' = AppendRecent(message)
                     /\ UNCHANGED <<next_sent, polls>>

\* one more vote notification delivered for (poll, voter)
Noticed(poll_id, voter) ==
    LET key == <<poll_id, voter>> IN
    Put(vote_notices, key,
        IF key \in DOMAIN vote_notices THEN vote_notices[key] + 1 ELSE 1)

RECURSIVE Total(_)
Total(f) ==
    IF DOMAIN f = {} THEN 0
    ELSE LET k == CHOOSE x \in DOMAIN f : TRUE IN f[k] + Total(Pop(f, k))

\* main.py:133-150: the poll's option titles, or None (FALSE); no request
\* without the token
get_groupme_poll(show) ==
    IF ~token THEN [found |-> FALSE, options |-> <<>>, calls |-> <<>>]
    ELSE [found |-> show.status = 200,
          options |-> show.options,
          calls |-> <<Call("groupme.poll.show", "poll", show.status = 200)>>]

\* the sender test left out
FromBot_m(data) == FALSE

\* main.py:170: the sender test of the chat branch
FromBot(data) == data.sender_bot \/ data.name = "Bot"

\* the group test left out
InGroup_m(data) == TRUE

\* main.py:86  data.get('group_id') == GROUPME_GROUP_ID
InGroup(data) == data.group

\* what the history variable keeps of a webhook payload and of the poll
\* GET /poll/{poll_id} showed
WebhookEvent(data, show) ==
    [handler |-> "groupme_webhook",
     thread |-> HealthThread,
     id |-> data.id,
     poll_id |-> data.poll_id,
     voter |-> data.nickname,
     options |-> show.options,
     group |-> data.group,
     type |-> data.type,
     bot |-> data.sender_bot \/ data.name = "Bot",
     text |-> data.text,
     redelivered |-> data.id \in DOMAIN groupme_to_discord,
     tracked |-> data.poll_id \in DOMAIN groupme_poll_mapping,
     record |-> IF data.poll_id \in DOMAIN groupme_poll_mapping
                THEN groupme_poll_mapping[data.poll_id] ELSE None,
     few |-> data.type = "poll.created" /\ show.status = 200
             /\ Len(show.options) < MinOptions]

\* a webhook payload as handle_groupme_webhook_event reads it
Payload(group, type, poll_id, nickname, sender_bot, name, text, id) ==
    [group |-> group, type |-> type, poll_id |-> poll_id, nickname |-> nickname,
     sender_bot |-> sender_bot, name |-> name, text |-> text, id |-> id,
     subject |-> IF type = "poll.created" THEN "Best pet?" ELSE ""]

\* payloads of another group
ForeignPayloads ==
    {Payload(FALSE, t, "p1", "ann", FALSE, "ann", PollText, -1) :
        t \in {"poll.created", "poll.vote", "poll.ended", "message"}}

\* poll events of the monitored group
PollPayloads(types) ==
    {Payload(TRUE, t, p, v, FALSE, "ann", "empty", 0) :
        t \in types, p \in GroupMePollIds \cup {None}, v \in Voters}

\* chat messages of the monitored group, written by members and by bots
ChatPayloads ==
    {Payload(TRUE, "message", None, "ann", FALSE, "ann", t, i) :
        t \in {"empty", "plain", PollText}, i \in GroupMeMsgIds \cup {0}}
    \cup {Payload(TRUE, "message", None, "ann", b, n, t, -1) :
        b \in BOOLEAN, n \in {"ann", "Bot"}, t \in {"plain", PollText}}

\* the payloads POSTed to /groupme/webhook
WebhookData == ForeignPayloads \cup ChatPayloads

\* main.py:181-218
handle_groupme_poll_created(data, show, channel, sent) ==
    IF data.poll_id = None THEN PollsUnchanged(FALSE, <<>>)
    ELSE LET full_poll_data == get_groupme_poll(show) IN
         IF ~full_poll_data.found THEN PollsUnchanged(FALSE, full_poll_data.calls)
         ELSE IF InsufficientOptions(full_poll_data.options)
         THEN PollsUnchanged(FALSE, full_poll_data.calls)
         ELSE IF ~channel THEN PollsUnchanged(FALSE, full_poll_data.calls)
         ELSE LET r == create_discord_poll_from_groupme_native(
                           data.subject, full_poll_data.options, data.poll_id,
                           data.nickname,
                           IF sent THEN SentId ELSE 0)
              IN  [r EXCEPT !.calls = full_poll_data.calls \o @]

\* main.py:322-341; sent is the id of the poll message, 0 when the send raised
handle_groupme_text_poll(data, channel, sent) ==
    LET poll_data == parse_groupme_poll_text(data.text) IN
    IF poll_data.raised THEN PollsUnchanged(FALSE, <<>>)
    ELSE IF Len(poll_data.options) >= MinOptions /\ channel
    THEN create_discord_poll_from_groupme_native(
             poll_data.question, poll_data.options, "text_" \o ToString(now),
             data.name, sent)
    ELSE PollsUnchanged(FALSE, <<>>)

\* main.py:264-285: the call the notification makes
handle_groupme_poll_vote(data, channel, sent) ==
    IF data.poll_id \in DOMAIN groupme_poll_mapping /\ channel
    THEN <<Call("discord.send", "vote", sent)>>
    ELSE <<>>

\* main.py:287-320
handle_groupme_poll_ended(data, show, channel, sent) ==
    IF data.poll_id \in DOMAIN groupme_poll_mapping /\ channel
    THEN LET final_poll_data == get_groupme_poll(show) IN
         IF final_poll_data.found /\ ~sent
         THEN \* discord_channel.send raises: the clean-up is skipped
              PollsUnchanged(FALSE, final_poll_data.calls
                                    \o <<Call("discord.send", "results", FALSE)>>)
         ELSE [ok |-> TRUE,
               ap |-> Pop(active_polls, groupme_poll_mapping[data.poll_id]),
               pm |-> poll_mapping,
               gpm |-> Pop(groupme_poll_mapping, data.poll_id),
               calls |-> final_poll_data.calls
                         \o (IF final_poll_data.found
                             THEN <<Call("discord.send", "results", TRUE)>>
                             ELSE <<>>)]
    ELSE PollsUnchanged(FALSE, <<>>)

\* main.py:450-471: TRUE when forward_groupme_to_discord sends the message
Forwards(data, channel) ==
    /\ ~FromBot(data)
    /\ data.text # "empty" /\ data.name # "Bot"
    /\ channel

\* the outcomes of the calls a webhook payload leads to: GET /poll/{poll_id},
\* bot.get_channel and channel.send
Shows(data) ==
    IF data.type = "poll.created" THEN ShowResponses
    ELSE IF data.type = "poll.ended"
    THEN {[status |-> s, options |-> <<"Red", "Blue">>] : s \in {0, 200, 500}}
    ELSE {[status |-> 0, options |-> <<>>]}

Channels(data) == BOOLEAN

Sends(data, channel) == IF channel THEN BOOLEAN ELSE {FALSE}

\* main.py:79-92, 152-179
groupme_webhook(data) ==
    \E show \in Shows(data), channel \in Channels(data) :
    \E sent \in Sends(data, channel) :
        /\ last' = WebhookEvent(data, show)
        /\ UNCHANGED <<token, cleanup_task, now, recent_messages,
                       poll_vote_tracking, cleanup_wake, iterating>>
        /\ IF ~InGroup(data)
           THEN \* main.py:86
                /\ out' = <<>>
                /\ UNCHANGED <<next_sent, message_mapping, groupme_to_discord,
                               polls, vote_notices>>
           ELSE IF data.type = "poll.created"
           THEN LET r == handle_groupme_poll_created(data, show, channel, sent) IN
                /\ r.ok => next_sent < MaxSent
                /\ out' = r.calls
                /\ active_polls' = r.ap
                /\ poll_mapping' = r.pm
                /\ groupme_poll_mapping' = r.gpm
                /\ next_sent' = IF r.ok THEN next_sent + 1 ELSE next_sent
                /\ UNCHANGED <<message_mapping, groupme_to_discord, vote_notices>>
           ELSE IF data.type = "poll.vote"
           THEN LET calls == handle_groupme_poll_vote(data, channel, sent)
                    delivered == calls # <<>> /\ sent
                IN
                /\ delivered => Total(vote_notices) < MaxNotices
                /\ out' = calls
                /\ vote_notices' =
                       IF delivered
                       THEN Noticed(groupme_poll_mapping[data.poll_id], data.nickname)
                       ELSE vote_notices
                /\ UNCHANGED <<next_sent, message_mapping, groupme_to_discord, polls>>
           ELSE IF data.type = "poll.ended"
           THEN LET r == handle_groupme_poll_ended(data, show, channel, sent) IN
                /\ out' = r.calls
                /\ active_polls' = r.ap
                /\ poll_mapping' = r.pm
                /\ groupme_poll_mapping' = r.gpm
                /\ UNCHANGED <<next_sent, message_mapping, groupme_to_discord,
                               vote_notices>>
           ELSE \* main.py:168-176: a chat message, then the text-poll check
                LET forwarded == Forwards(data, channel) /\ sent
                    used == IF forwarded THEN 1 ELSE 0
                    r == IF HasPollText(data.text)
                         THEN handle_groupme_text_poll(
                                  data, channel, IF sent THEN SentId + used ELSE 0)
                         ELSE PollsUnchanged(FALSE, <<>>)
                    polled == IF r.ok THEN 1 ELSE 0
                IN
                /\ next_sent + used + polled <= MaxSent
                /\ out' = (IF Forwards(data, channel)
                           THEN <<Call("discord.send", "chat", sent)>> ELSE <<>>)
                          \o r.calls
                /\ next_sent' = next_sent + used + polled
                /\ IF forwarded /\ data.id # 0
                   THEN /\ groupme_to_discord' = Put(groupme_to_discord, data.id, SentId)
                        /\ message_mapping' = Put(message_mapping, SentId, data.id)
                   ELSE UNCHANGED <<message_mapping, groupme_to_discord>>
                /\ active_polls' = r.ap
                /\ poll_mapping' = r.pm
                /\ groupme_poll_mapping' = r.gpm
                /\ UNCHANGED vote_notices

\* a reaction as on_reaction_add reads it
Reaction(message_id, bot, monitored, emoji) ==
    [message_id |-> message_id, bot |-> bot, monitored |-> monitored,
     emoji |-> emoji, user |-> "alice"]

\* reactions on_reaction_add drops: made by a bot, or in another channel
DroppedReactions ==
    {Reaction(1, TRUE, m, e) : m \in BOOLEAN, e \in Emojis}
    \cup {Reaction(1, FALSE, FALSE, e) : e \in Emojis}

\* reactions of users in the monitored channel
UserReactions ==
    {Reaction(i, FALSE, TRUE, e) : i \in UserMsgIds \cup SentMsgIds, e \in Emojis}

\* the reactions delivered to on_reaction_add
Reactions == DroppedReactions \cup UserReactions

\* what the history variable keeps of a reaction; offered is TRUE when
\* handle_poll_vote_to_groupme was called for it
ReactionEvent(reaction, offered) ==
    [handler |-> "on_reaction_add",
     thread |-> MainThread,
     user |-> reaction.user,
     offered |-> offered,
     poll |-> IF reaction.message_id \in DOMAIN poll_mapping
                 /\ poll_mapping[reaction.message_id] \in DOMAIN active_polls
              THEN poll_mapping[reaction.message_id] ELSE None,
     bot |-> reaction.bot,
     monitored |-> reaction.monitored,
     emoji |-> reaction.emoji,
     mapped |-> reaction.message_id \in DOMAIN message_mapping]

\* main.py:540-542: the tracked polls the reaction is on.  The keys of
\* active_polls are "discord_<message id>", so at most one poll matches.
PollsOn(message_id, emoji) ==
    {p \in DOMAIN active_polls :
        /\ active_polls[p].source = "discord"
        /\ active_polls[p].discord_message = message_id
        /\ emoji \in Range(OptionEmojis(active_polls[p]))}

\* main.py:536-576
handle_poll_vote_to_groupme(message_id, emoji, user_name, status) ==
    IF PollsOn(message_id, emoji) = {}
    THEN [handled |-> FALSE, pvt |-> poll_vote_tracking, calls |-> <<>>,
          notices |-> vote_notices]
    ELSE LET poll_id == CHOOSE p \in PollsOn(message_id, emoji) : TRUE
             vote_key == poll_id \o "_" \o user_name
         IN  IF vote_key \in DOMAIN poll_vote_tracking
             THEN [handled |-> TRUE, pvt |-> poll_vote_tracking, calls |-> <<>>,
                   notices |-> vote_notices]
             ELSE [handled |-> status = Accepted,
                   pvt |-> Put(poll_vote_tracking, vote_key,
                               [option |-> emoji, timestamp |-> now]),
                   calls |-> <<Call("groupme.post", "vote", status = Accepted)>>,
                   notices |-> IF status = Accepted
                               THEN Noticed(poll_id, user_name) ELSE vote_notices]

\* main.py:496-534
send_reaction_to_groupme(message_id, emoji, user_name, status, found) ==
    IF ~token
    THEN [offered |-> FALSE, pvt |-> poll_vote_tracking, calls |-> <<>>,
          notices |-> vote_notices]
    ELSE LET v == handle_poll_vote_to_groupme(message_id, emoji, user_name, status[1]) IN
         IF v.handled
         THEN [offered |-> TRUE, pvt |-> v.pvt, calls |-> v.calls, notices |-> v.notices]
         ELSE [offered |-> TRUE, pvt |-> v.pvt,
               calls |-> v.calls
                         \o <<Call("groupme.messages", "reaction", found),
                              Call("groupme.post", "reaction", status[2] = Accepted)>>,
               notices |-> v.notices]

\* the outcomes of the posts a reaction leads to
ReactionOutcomes(reaction) == [1..2 -> {Accepted, 500}]

\* the outcomes of get_groupme_message (main.py:473-494)
Lookups(reaction) == BOOLEAN

\* main.py:1447  if user.bot
ByBot(reaction) == reaction.bot

\* main.py:1444-1483
on_reaction_add(reaction) ==
    /\ reaction.message_id \in SentMsgIds => reaction.message_id < SentId
    /\ iterating = Idle
    /\ UNCHANGED <<token, cleanup_task, now, next_sent, message_mapping,
                   groupme_to_discord, recent_messages, polls, cleanup_wake,
                   iterating>>
    /\ IF ByBot(reaction) \/ ~reaction.monitored \/ reaction.emoji \notin EMOJI_MAPPING
       THEN /\ last' = ReactionEvent(reaction, FALSE)
            /\ out' = <<>>
            /\ UNCHANGED <<poll_vote_tracking, vote_notices>>
       ELSE IF reaction.message_id \in DOMAIN message_mapping
       THEN \E status \in ReactionOutcomes(reaction), found \in Lookups(reaction) :
                LET r == send_reaction_to_groupme(
                             message_mapping[reaction.message_id], reaction.emoji,
                             reaction.user, status, found)
                IN  /\ Total(r.notices) <= MaxNotices
                    /\ last' = ReactionEvent(reaction, r.offered)
                    /\ out' = r.calls
                    /\ poll_vote_tracking' = r.pvt
                    /\ vote_notices' = r.notices
       ELSE \* main.py:1464-1483: a reaction to a message written on Discord
            \E status \in PostStatuses :
                /\ last' = ReactionEvent(reaction, FALSE)
                /\ out' = <<Call("groupme.post", "reaction", status = Accepted)>>
                /\ UNCHANGED <<poll_vote_tracking, vote_notices>>

\* the clock advances; a running cleanup task wakes when its sleep ends, so
\* the clock does not pass cleanup_wake before the pass has run
Tick ==
    \E d \in ClockSteps :
        /\ now + d <= Horizon
        /\ cleanup_task => now + d <= cleanup_wake
        /\ now' = now + d
        /\ last' = [handler |-> "clock", thread |-> "none"]
        /\ out' = <<>>
        /\ UNCHANGED <<token, cleanup_task, next_sent, maps, cleanup_wake, vote_notices,
                       iterating>>

\* main.py:1814  current_time - poll_data['created_at'] > 86400
Expired(current_time, created_at) == current_time - created_at > PollLifetime

\* main.py:1806-1834: one pass of the loop, run when its sleep has ended
cleanup_old_polls ==
    LET current_time == now
        expired_polls == {p \in DOMAIN active_polls :
                             Expired(current_time, active_polls[p].created_at)}
        old_votes == {k \in DOMAIN poll_vote_tracking :
                         Expired(current_time, poll_vote_tracking[k].timestamp)}
    IN
    /\ iterating = Idle
    /\ cleanup_task
    /\ now >= cleanup_wake
    /\ active_polls' = [p \in DOMAIN active_polls \ expired_polls |-> active_polls[p]]
    /\ poll_vote_tracking' =
           [k \in DOMAIN poll_vote_tracking \ old_votes |-> poll_vote_tracking[k]]
    /\ cleanup_wake' = now + CleanupSleep
    /\ last' = [handler |-> "cleanup_old_polls", thread |-> MainThread]
    /\ out' = <<>>
    /\ UNCHANGED <<token, cleanup_task, now, next_sent, message_mapping,
                   groupme_to_discord, recent_messages, poll_mapping,
                   groupme_poll_mapping, vote_notices, iterating>>

\* what the history variable keeps of a step of the polls command
ListEvent(raised) == [handler |-> "list_polls", thread |-> MainThread, raised |-> raised]

\* main.py:1553-1566: the polls command in the monitored channel, up to the
\* start of its loop over active_polls.items(); the iterator keeps the size
\* of the dictionary (di_used of CPython)
list_polls_begin ==
    /\ iterating = Idle
    /\ last' = ListEvent(FALSE)
    /\ IF active_polls = Empty
       THEN \* main.py:1560-1563
            /\ out' = <<Call("discord.send", "command", TRUE),
                        Call("discord.send", "command", TRUE)>>
            /\ iterating' = Idle
       ELSE /\ out' = <<>>
            /\ iterating' = [by |-> "list_polls",
                             used |-> Cardinality(DOMAIN active_polls), seen |-> 0]
    /\ UNCHANGED <<token, cleanup_task, now, next_sent, maps, cleanup_wake, vote_notices>>

\* main.py:1566-1598: one turn of the loop, which has no await: the iterator
\* raises RuntimeError (dictionary changed size during iteration) when the
\* size is no longer the one it kept; after the last item the list is sent
list_polls_next ==
    /\ iterating # Idle
    /\ IF Cardinality(DOMAIN active_polls) # iterating.used
       THEN /\ last' = ListEvent(TRUE)
            /\ out' = <<>>
            /\ iterating' = Idle
       ELSE IF iterating.seen < iterating.used
       THEN /\ last' = ListEvent(FALSE)
            /\ out' = <<>>
            /\ iterating' = [iterating EXCEPT !.seen = @ + 1]
       ELSE /\ last' = ListEvent(FALSE)
            /\ out' = <<Call("discord.send", "command", TRUE)>>
            /\ iterating' = Idle
    /\ UNCHANGED <<token, cleanup_task, now, next_sent, maps, cleanup_wake, vote_notices>>

\* main.py:42-52: the dictionaries are empty when the module is loaded
Loaded ==
    /\ token \in BOOLEAN
    /\ now = 0
    /\ next_sent = 0
    /\ message_mapping = Empty
    /\ groupme_to_discord = Empty
    /\ recent_messages = <<>>
    /\ poll_mapping = Empty
    /\ groupme_poll_mapping = Empty
    /\ active_polls = Empty
    /\ poll_vote_tracking = Empty
    /\ cleanup_wake = 0
    /\ vote_notices = Empty
    /\ iterating = Idle
    /\ last = [handler |-> "none", thread |-> "none"]
    /\ out = <<>>

\* main.py:1863-1864: asyncio.create_task is called with no running event
\* loop and raises RuntimeError: no task runs cleanup_old_polls
Init == Loaded /\ cleanup_task = FALSE

\* the same start, and the start in which the coroutine was handed to a
\* running loop
InitClock == Loaded /\ cleanup_task \in BOOLEAN

Next ==
    \/ \E message \in Messages : on_message(message)
    \/ \E reaction \in Reactions : on_reaction_add(reaction)
    \/ \E data \in WebhookData : groupme_webhook(data)

Spec == Init /\ [][Next]_vars

\* the events of polls and votes
PollMessages == NativePollMessages(UserMsgIds, OptionLists) \cup CommandMessages({"testpoll"})

PollWebhookData == PollPayloads({"poll.created", "poll.ended"})

NextPolls ==
    \/ \E message \in PollMessages : on_message(message)
    \/ \E data \in PollWebhookData : groupme_webhook(data)

SpecPolls == Init /\ [][NextPolls]_vars

\* the events of votes: a poll of either platform, its votes and its end,
\* a relayed chat message and the reactions of users
VoteMessages == NativePollMessages(UserMsgIds, {<<"Red", "Blue">>})

VoteWebhookData ==
    PollPayloads({"poll.created", "poll.vote", "poll.ended"})
    \cup {Payload(TRUE, "message", None, "ann", FALSE, "ann", "plain", -1)}

NextVotes ==
    \/ \E message \in VoteMessages : on_message(message)
    \/ \E reaction \in UserReactions : on_reaction_add(reaction)
    \/ \E data \in VoteWebhookData : groupme_webhook(data)

SpecVotes == Init /\ [][NextVotes]_vars

\* a stream of chat messages long enough to fill recent_messages, and a
\* command
RecentCommands == CommandMessages({"status"})

NextRecent ==
    \/ \E message \in StreamMessages : on_message(message)
    \/ \E message \in RecentCommands : on_message(message)

SpecRecent == Init /\ [][NextRecent]_vars

\* chat messages that reply, by a reference or by their text
ReplyMessages ==
    {Message(i, FALSE, TRUE, c, "none", NoPoll, <<>>, r) :
        i \in UserMsgIds, c \in ReplyTexts, r \in BOOLEAN}

NextReply == \E message \in ReplyMessages : on_message(message)

SpecReply == Init /\ [][NextReply]_vars

\* questions of polls: a short one, one longer than the cap of GroupMe's
\* subjects and one as long as the longest question Discord accepts
Questions == {"Best pet?", Repeat("0123456789", 17), Repeat("0123456789", 30)}

\* native polls of both platforms with these questions
QuestionMessages ==
    {[message EXCEPT !.question = q] :
        message \in NativePollMessages(UserMsgIds, {<<"Red", "Blue">>}),
        q \in Questions}

QuestionWebhookData ==
    {[data EXCEPT !.subject = q] :
        data \in PollPayloads({"poll.created"}), q \in Questions}

NextQuestions ==
    \/ \E message \in QuestionMessages : on_message(message)
    \/ \E data \in QuestionWebhookData : groupme_webhook(data)

SpecQuestions == Init /\ [][NextQuestions]_vars

\* the values os.getenv gives for a variable: unset, empty, set
EnvValues == {None, "", "set"}

\* the environment of the process; DISCORD_CHANNEL_ID is the integer of
\* main.py:20, 0 when the variable is unset or "0"
Environments ==
    [DISCORD_BOT_TOKEN : EnvValues, GROUPME_BOT_ID : EnvValues,
     GROUPME_ACCESS_TOKEN : EnvValues, GROUPME_GROUP_ID : EnvValues,
     DISCORD_CHANNEL_ID : {0, 42}]

\* not value, for a value of os.getenv
Falsy(value) == value \in {None, ""}

\* the event of the start-up block; outcome is "loaded" before it ran
MainEvent(env, outcome) ==
    [handler |-> "__main__", thread |-> MainThread, env |-> env,
     outcome |-> outcome]

\* main.py:1836-1871: the block ends in exit(1) (1838-1848), or goes on
\* to asyncio.create_task (1864), which raises RuntimeError because no
\* event loop runs in the main thread; bot.run (1869) comes after it
main ==
    /\ last.handler = "__main__" /\ last.outcome = "loaded"
    /\ last' = MainEvent(last.env,
                 IF Falsy(last.env.DISCORD_BOT_TOKEN) THEN "exit"
                 ELSE IF Falsy(last.env.GROUPME_BOT_ID) THEN "exit"
                 ELSE IF last.env.DISCORD_CHANNEL_ID = 0 THEN "exit"
                 ELSE "RuntimeError")
    /\ out' = IF Falsy(last.env.DISCORD_BOT_TOKEN) \/ Falsy(last.env.GROUPME_BOT_ID)
                 \/ last.env.DISCORD_CHANNEL_ID = 0
              THEN <<>>
              ELSE <<Call("threading.Thread.start", "health", TRUE)>>
    /\ UNCHANGED <<token, cleanup_task, now, next_sent, maps, polls, cleanup_wake,
                   vote_notices, iterating>>

\* the module is loaded with some environment (main.py:17-52)
InitStart ==
    \E env \in Environments :
        /\ token = ~Falsy(env.GROUPME_ACCESS_TOKEN)
        /\ cleanup_task = FALSE
        /\ now = 0
        /\ next_sent = 0
        /\ message_mapping = Empty
        /\ groupme_to_discord = Empty
        /\ recent_messages = <<>>
        /\ poll_mapping = Empty
        /\ groupme_poll_mapping = Empty
        /\ active_polls = Empty
        /\ poll_vote_tracking = Empty
        /\ cleanup_wake = 0
        /\ vote_notices = Empty
        /\ iterating = Idle
        /\ last = MainEvent(env, "loaded")
        /\ out = <<>>

NextStart == main

SpecStart == InitStart /\ [][NextStart]_vars

\* the events of a poll's life, the clock and the cleanup task
ClockMessages == NativePollMessages(UserMsgIds, {<<"Red", "Blue">>})

ClockWebhookData ==
    {data \in PollPayloads({"poll.vote", "poll.ended"}) : data.poll_id # None}

NextClock ==
    \/ \E message \in ClockMessages : on_message(message)
    \/ \E data \in ClockWebhookData : groupme_webhook(data)
    \/ Tick
    \/ cleanup_old_polls

SpecClock == InitClock /\ [][NextClock]_vars

\* the two threads: polls created and ended on both platforms while the
\* polls command runs on the main thread
ThreadWebhookData ==
    {data \in PollPayloads({"poll.created", "poll.ended"}) : data.poll_id # None}

NextThreads ==
    \/ \E message \in VoteMessages : on_message(message)
    \/ \E data \in ThreadWebhookData : groupme_webhook(data)
    \/ list_polls_begin
    \/ list_polls_next

SpecThreads == Init /\ [][NextThreads]_vars

(***************************************************************************)
(* Properties.                                                             *)
(***************************************************************************)

\* a call to api of that kind is among calls
Made(calls, api, kind) ==
    \E i \in DOMAIN calls : calls[i].api = api /\ calls[i].kind = kind

\* a call to api of that kind is among calls and it failed
Failed(calls, api, kind) ==
    \E i \in DOMAIN calls :
        calls[i].api = api /\ calls[i].kind = kind /\ ~calls[i].ok

\* a call to api of that kind is among calls and it succeeded
Succeeded(calls, api, kind) ==
    \E i \in DOMAIN calls :
        calls[i].api = api /\ calls[i].kind = kind /\ calls[i].ok

\* the message is relayed to the other platform as plain chat
RelayedAsChat(calls) ==
    Made(calls, "groupme.post", "chat") \/ Made(calls, "discord.send", "chat")

\* a poll is created on the other platform
PollSent(calls) ==
    Made(calls, "groupme.poll.create", "poll") \/ Made(calls, "discord.send", "poll")

\* the event is a message of a user in the monitored channel
UserMessage(event) ==
    event.handler = "on_message" /\ ~event.bot /\ event.monitored

\* the event is a payload of the monitored group
GroupPayload(event, type) ==
    event.handler = "groupme_webhook" /\ event.group /\ event.type = type

\* C1: for every tracked poll and every voter, whatever vote events are
\* delivered and redelivered in either direction, the counterpart platform
\* receives at most one vote notification for that (poll, voter) pair.
C1_AtMostOneVoteNotice ==
    \A k \in DOMAIN vote_notices : vote_notices[k] <= 1

\* C2: a poll with fewer than 2 options (a native Discord poll, or a native
\* GroupMe poll fetched after poll.created) is rejected: no counterpart poll
\* is created, and active_polls, poll_mapping and groupme_poll_mapping are
\* unchanged.
C2_FewOptionsRejected ==
    [][(last'.handler \in {"on_message", "groupme_webhook"} /\ last'.few)
       => (~PollSent(out') /\ UNCHANGED polls)]_vars

C2_Witness ==
    /\ UserMessage(last) /\ last.few /\ last.content # "command"
    /\ token
    /\ Made(out, "discord.add_reaction", "error")

\* C3: when the creation of the counterpart poll fails (a response other
\* than 201 or an exception of the GroupMe poll API, an exception of the
\* Discord send), active_polls, poll_mapping and groupme_poll_mapping are
\* after the step exactly as before it.
C3_FailedCreationRegistersNothing ==
    [][(Failed(out', "groupme.poll.create", "poll")
        \/ Failed(out', "discord.send", "poll"))
       => UNCHANGED polls]_vars

C3_Witness ==
    /\ Failed(out, "groupme.poll.create", "poll")
    /\ active_polls # Empty

\* C4: an event written by a bot causes no outbound call and no change of
\* state: a Discord message or reaction of a bot is dropped, and a GroupMe
\* message whose sender is a bot leads to no chat relay and to no poll on
\* Discord, whatever its text.
C4_BotEventsDropped ==
    [][((last'.handler \in {"on_message", "on_reaction_add"} /\ last'.bot)
        \/ (GroupPayload(last', "message") /\ last'.bot))
       => (out' = <<>> /\ UNCHANGED <<maps, next_sent>>)]_vars

C4_Witness ==
    /\ GroupPayload(last, "message") /\ last.bot /\ last.text = PollText
    /\ message_mapping # Empty

C6_CommandsNotRelayed ==
    [][(UserMessage(last') /\ last'.content = "command")
       => (/\ \A i \in DOMAIN out' : out'[i].kind = "command"
           /\ UNCHANGED <<recent_messages, polls>>)]_vars

C6_Witness ==
    /\ UserMessage(last) /\ last.content = "command" /\ last.poll
    /\ Made(out, "groupme.post", "command")

\* C7: an event from outside the monitored pair (a Discord message or
\* reaction of another channel, a payload of another group) is relayed to
\* no platform and leaves every dictionary unchanged.
C7_OutsideEventsDropped ==
    [][((last'.handler \in {"on_message", "on_reaction_add"} /\ ~last'.monitored)
        \/ (last'.handler = "groupme_webhook" /\ ~last'.group))
       => (/\ \A i \in DOMAIN out' :
                  out'[i].api = "discord.send" /\ out'[i].kind = "command"
           /\ (last'.handler # "on_message" => out' = <<>>)
           /\ UNCHANGED maps)]_vars

C7_Witness ==
    /\ last.handler = "groupme_webhook" /\ ~last.group /\ last.type = "message"
    /\ message_mapping # Empty

\* C8: after the same GroupMe message id was relayed twice, no link entry
\* of that message points to another target than the one its lookup
\* returns: every entry of message_mapping agrees with groupme_to_discord.
C8_NoConflictingLinks ==
    \A d \in DOMAIN message_mapping :
        /\ message_mapping[d] \in DOMAIN groupme_to_discord
        /\ groupme_to_discord[message_mapping[d]] = d

\* C9: from start-up on, no record whose age is at least 24 hours remains
\* in active_polls (once the pass of a running cleanup task that is due at
\* that time has run).
C9_NoRecordOlderThanADay ==
    (cleanup_task => now < cleanup_wake)
    => \A p \in DOMAIN active_polls :
           now - active_polls[p].created_at < PollLifetime

\* C10: when a poll.ended event of a tracked poll has been handled, the
\* record of that poll is no longer in active_polls, whether or not the
\* Discord channel was available and the final results were fetched.
C10_EndedPollRemoved ==
    (GroupPayload(last, "poll.ended") /\ last.tracked)
    => last.record \notin DOMAIN active_polls

\* C12: every change of the shared dictionaries (message_mapping,
\* groupme_to_discord, active_polls, poll_mapping, groupme_poll_mapping,
\* poll_vote_tracking) is made by a step of the Discord event loop's
\* thread; a step of the thread that serves /groupme/webhook leaves all of
\* them unchanged.
C12_OnlyEventLoopWrites ==
    [][last'.thread # MainThread
       => UNCHANGED <<message_mapping, groupme_to_discord, active_polls,
                      poll_mapping, groupme_poll_mapping, poll_vote_tracking>>]_vars

\* C13: no exception leaves the handler of an event: whatever call fails
\* while a Discord message or command is handled, on_message and the
\* function of the command return normally.
C13_NoExceptionEscapes ==
    last.handler = "on_message" => ~last.raised

\* C14: a reaction is forwarded to GroupMe as a generic reaction (for a
\* mapped message or for a message written on Discord) only after it was
\* offered to handle_poll_vote_to_groupme and that call returned unhandled.
C14_VoteRelayFirst ==
    (last.handler = "on_reaction_add" /\ Made(out, "groupme.post", "reaction"))
    => last.offered

\* C15: whenever a chat message was relayed with success, in either
\* direction, a link with its id is recorded: the id of a relayed Discord
\* message is a key of message_mapping, the id of a relayed GroupMe message
\* is a key of groupme_to_discord.
C15_RelayedMessagesLinked ==
    /\ (UserMessage(last) /\ Succeeded(out, "groupme.post", "chat"))
       => last.id \in DOMAIN message_mapping
    /\ (GroupPayload(last, "message") /\ Succeeded(out, "discord.send", "chat"))
       => last.id \in DOMAIN groupme_to_discord

\* the record p exists and both ids it holds resolve to it
Resolves(p) ==
    /\ p \in DOMAIN active_polls
    /\ active_polls[p].discord_message \in DOMAIN poll_mapping
    /\ poll_mapping[active_polls[p].discord_message] = p
    /\ active_polls[p].groupme_poll_id \in DOMAIN groupme_poll_mapping
    /\ groupme_poll_mapping[active_polls[p].groupme_poll_id] = p

\* C16: after a poll was translated with success, in either direction, its
\* record is in active_polls, the id of its Discord message resolves to the
\* record through poll_mapping and the id of its GroupMe poll resolves to it
\* through groupme_poll_mapping.
C16_TranslatedPollResolves ==
    /\ (UserMessage(last) /\ last.content # "command" /\ last.poll
          /\ Succeeded(out, "groupme.poll.create", "poll"))
       => Resolves("discord_" \o ToString(last.id))
    /\ (GroupPayload(last, "poll.created") /\ Succeeded(out, "discord.send", "poll"))
       => Resolves("groupme_" \o last.poll_id)

\* the emoji is the one of an answer of the poll p
EncodesOption(emoji, p) ==
    \E i \in DOMAIN active_polls[p].options :
        i \in DOMAIN AnswerEmojis /\ AnswerEmojis[i] = emoji

\* C17: when a user has reacted to the message of a tracked poll that was
\* created on Discord, with the emoji of one of the poll's answers, a
\* VoteRecord of (poll, voter) exists and a 'voted for' notification of that
\* pair was sent to GroupMe, by this reaction or by an earlier one.
C17_ReactionVoteRecorded ==
    (/\ last.handler = "on_reaction_add" /\ ~last.bot /\ last.monitored
     /\ last.poll \in DOMAIN active_polls
     /\ active_polls[last.poll].source = "discord"
     /\ EncodesOption(last.emoji, last.poll))
    => /\ (last.poll \o "_" \o last.user) \in DOMAIN poll_vote_tracking
       /\ (Made(out, "groupme.post", "vote")
           \/ <<last.poll, last.user>> \in DOMAIN vote_notices)

\* C18: when the notification of a vote on a tracked poll has failed (a
\* response other than 202 or an exception of the post to GroupMe, an
\* exception of the send to Discord), the VoteRecord of (poll, voter) is
\* present after the step.
C18_FailedNoticeKeepsVoteRecord ==
    /\ (last.handler = "on_reaction_add" /\ Failed(out, "groupme.post", "vote"))
       => poll_vote_tracking # Empty
    /\ (GroupPayload(last, "poll.vote") /\ last.tracked
          /\ Failed(out, "discord.send", "vote"))
       => (last.record \o "_" \o last.voter) \in DOMAIN poll_vote_tracking

\* sent is the list source cut to the first MaxPollOptions options, in the
\* same order, each cut to its first cap characters
SameOptions(sent, source, cap) ==
    /\ Len(sent) = (IF Len(source) < MaxPollOptions THEN Len(source)
                    ELSE MaxPollOptions)
    /\ \A i \in DOMAIN sent :
           sent[i] = (IF Len(source[i]) <= cap THEN source[i]
                      ELSE SubSeq(source[i], 1, cap))

\* C19: the option list of the poll asked of the counterpart platform is
\* the first min(|O|, 10) options of the source poll's list O, in the same
\* order, each cut to 160 characters towards GroupMe and to 55 towards
\* Discord.
C19_OptionsKeptInOrder ==
    \A i \in DOMAIN out :
        /\ (UserMessage(last) /\ last.content # "command"
              /\ out[i].api = "groupme.poll.create")
           => SameOptions(out[i].options, last.options, GroupMeOptionCap)
        /\ (GroupPayload(last, "poll.created") /\ out[i].api = "discord.send"
              /\ out[i].kind = "poll")
           => SameOptions(out[i].options, last.options, DiscordOptionCap)

C19_Witness ==
    /\ UserMessage(last) /\ last.content # "command"
    /\ Len(last.options) > MaxPollOptions
    /\ Succeeded(out, "groupme.poll.create", "poll")
    /\ active_polls # Empty

\* the message of the last step went through the relay of on_message
Relayed(event) ==
    /\ UserMessage(event) /\ event.content # "command" /\ ~event.poll
    /\ ~event.raised

\* C20: in a channel whose messages arrive with the ids 1, 2, 3, ..., after
\* n relayed messages recent_messages holds min(n, 20) entries, they are the
\* messages n - min(n, 20) + 1 .. n in that order, and the newest entry is
\* the message relayed last.
C20_RecentWindow ==
    LET k == Len(recent_messages)
        n == IF k = 0 THEN 0 ELSE recent_messages[k].message_id
    IN  /\ k <= RecentCapacity
        /\ k = (IF n < RecentCapacity THEN n ELSE RecentCapacity)
        /\ \A i \in 1..k : recent_messages[i].message_id = n - k + i
        /\ Relayed(last) => n = last.id

C20_Witness ==
    /\ Relayed(last) /\ last.id = RecentCapacity + 2
    /\ Len(recent_messages) = RecentCapacity
    /\ recent_messages[1].message_id = 3

\* the post to GroupMe made for the chat message of the last step
ChatPosts == {i \in DOMAIN out : out[i].api = "groupme.post" /\ out[i].kind = "chat"}

\* the last step fetched the message its message refers to
ReferenceFetched == Succeeded(out, "discord.fetch_message", "reply")

\* C21: detect_reply_context returns the two captures of the pattern that
\* matches and otherwise (None, text): "@alice great point" gives the author
\* "alice" and the message "great point", "Just chatting" gives no author
\* and the text unchanged; a relayed message without a fetched reference
\* is posted with what the detection returned.
C21_ReplyContextDetected ==
    (UserMessage(last) /\ ~ReferenceFetched) =>
        \A i \in ChatPosts :
            LET detected == detect_reply_context(last.content) IN
            /\ last.content = "@alice great point"
                   => detected = <<"alice", "great point">>
            /\ last.content = "@carol   thanks" => detected = <<"carol", "thanks">>
            /\ last.content = "Reply to @bob: hi there"
                   => detected = <<"bob", "hi there">>
            /\ last.content = "> quoted\nanswer" => detected = <<"quoted", "answer">>
            /\ last.content = "\"quoted\" answer" => detected = <<"quoted", "answer">>
            /\ last.content \in {"Just chatting", "@alice", "Reply to @bob:"}
                   => detected = <<None, last.content>>
            /\ out[i].text =
                   IF detected[1] = None THEN "alice: " \o detected[2]
                   ELSE ReplyMark \o "Replying to " \o detected[1] \o ":\n\n"
                        \o "alice: " \o detected[2]

C21_Witness ==
    /\ UserMessage(last) /\ last.content = "@alice great point"
    /\ ~ReferenceFetched
    /\ \E i \in ChatPosts :
           out[i].text = ReplyMark \o "Replying to alice:\n\nalice: great point"

\* the body of the message the last step fetched
FetchedBody ==
    out[CHOOSE i \in DOMAIN out : out[i].api = "discord.fetch_message"].text

\* the text posted for a reply to bob's message, of which quoted is shown
ReplyPost(quoted, more, content) ==
    ReplyMark \o "Replying to bob: \"" \o quoted \o more \o "\"\n\n"
    \o "alice: " \o content

\* the text posted for a message with no reference fetched
PatternPost(content) ==
    LET detected == detect_reply_context(content) IN
    IF detected[1] = None THEN "alice: " \o content
    ELSE ReplyMark \o "Replying to " \o detected[1] \o ":\n\n"
         \o "alice: " \o detected[2]

\* C26 as stated: when the message a Discord message refers to is fetched,
\* the post to GroupMe quotes its author and its body cut to 100 characters
\* and leaves the text of the message as it is; otherwise the textual
\* patterns decide, and a text without context is relayed plainly.
C26_ReferenceQuotedTo100 ==
    UserMessage(last) =>
        \A i \in ChatPosts :
            out[i].text =
                IF ReferenceFetched
                THEN ReplyPost(Slice(FetchedBody, ReplyBodyCap), "", last.content)
                ELSE PatternPost(last.content)

\* C26, amended: when the message a Discord message refers to is fetched,
\* the post to GroupMe quotes its author and the first 50 characters of its
\* body, followed by "..." when the body is longer, and leaves the text of
\* the message as it is, its reply patterns included; otherwise the textual
\* patterns decide, and a text without context is relayed plainly.
C26_ReferenceFirst ==
    UserMessage(last) =>
        \A i \in ChatPosts :
            out[i].text =
                IF ReferenceFetched
                THEN ReplyPost(Slice(FetchedBody, QuoteCap),
                               IF Len(FetchedBody) > QuoteCap THEN "..." ELSE "",
                               last.content)
                ELSE PatternPost(last.content)

C26_Witness ==
    /\ UserMessage(last) /\ last.content = "@alice great point"
    /\ ReferenceFetched /\ Len(FetchedBody) > ReplyBodyCap
    /\ \E i \in ChatPosts :
           out[i].text = ReplyPost(Repeat("0123456789", 5), "...", "@alice great point")

\* the text-poll handler of one of the platforms ran on the text
TextPollHandled(text) ==
    \/ UserMessage(last) /\ ~last.poll /\ last.content = text
    \/ GroupPayload(last, "message") /\ last.text = text

\* C22: the parser the text-poll handlers call returns, for the text
\* "Poll: Best pet? 1 Dog 2 Cat 3 Fish", the question "Best pet" and the
\* options Dog, Cat, Fish in that order.
C22_TextPollParsed ==
    TextPollHandled(PollText) =>
        LET poll_data == parse_groupme_poll_text(PollText) IN
        /\ ~poll_data.raised
        /\ poll_data.question = "Best pet"
        /\ poll_data.options = <<"Dog", "Cat", "Fish">>

\* C30: a Discord message whose text has a poll keyword and no options is
\* answered with no error reply and no error reaction, and it is relayed to
\* GroupMe as a chat message.
C30_SilentDegrade ==
    (UserMessage(last) /\ last.content = QuestionText) =>
        /\ ~Made(out, "discord.reply", "error")
        /\ ~Made(out, "discord.add_reaction", "error")
        /\ Made(out, "groupme.post", "chat")

\* the label without its emoji-presentation selectors, which change how an
\* emoji is drawn and not which emoji it is
RECURSIVE Shown(_)
Shown(label) ==
    IF label = "" THEN ""
    ELSE IF StartsWith(label, Selector) THEN Shown(Drop(label, Len(Selector)))
    ELSE Char(label, 1) \o Shown(Drop(label, 1))

\* C28: in a Discord poll built from a GroupMe poll the answer at index i,
\* i < 10, carries the i-th emoji of the sequence keycap 1 .. keycap 9,
\* keycap ten.
C28_CanonicalLabels ==
    GroupPayload(last, "poll.created") =>
        \A c \in DOMAIN out :
            (out[c].api = "discord.send" /\ out[c].kind = "poll") =>
                \A i \in DOMAIN out[c].emojis :
                    Shown(out[c].emojis[i]) = Shown(option_emojis[i])

\* the start-up block has run
Started == last.handler = "__main__" /\ last.outcome # "loaded"

\* C23: start-up ends the process with an error when the Discord bot token,
\* the monitored channel id or the GroupMe group id is absent, and goes on
\* to run the bot when only the access token is absent.
C23_StartUp ==
    Started =>
        /\ (\/ Falsy(last.env.DISCORD_BOT_TOKEN)
            \/ last.env.DISCORD_CHANNEL_ID = 0
            \/ Falsy(last.env.GROUPME_GROUP_ID)) => last.outcome = "exit"
        /\ (/\ ~Falsy(last.env.DISCORD_BOT_TOKEN)
            /\ ~Falsy(last.env.GROUPME_BOT_ID)
            /\ last.env.DISCORD_CHANNEL_ID # 0
            /\ ~Falsy(last.env.GROUPME_GROUP_ID)
            /\ Falsy(last.env.GROUPME_ACCESS_TOKEN)) => last.outcome = "bot.run"

\* the last step handled poll.ended for a poll created on GroupMe and
\* removed its record
JustEnded ==
    /\ GroupPayload(last, "poll.ended") /\ last.tracked
    /\ last.record = "groupme_" \o last.poll_id
    /\ last.record \notin DOMAIN active_polls

\* C24: a poll that has ended never becomes active again: when the webhook
\* handles poll.created right after the step that removed the record of a
\* GroupMe poll, the same native id included, the record stays out of
\* active_polls.
C24_EndedStaysEnded ==
    [][(JustEnded /\ GroupPayload(last', "poll.created"))
           => last.record \notin DOMAIN active_polls']_vars

\* a request that needs the access token is among calls
TokenRequest(calls) ==
    \E i \in DOMAIN calls :
        calls[i].api \in {"groupme.poll.create", "groupme.poll.show",
                          "groupme.upload", "groupme.messages"}

\* C25: without the access token no poll is registered and no request that
\* needs the token is made, and no reaction in the monitored channel is
\* forwarded to GroupMe.
C25_NoTokenNoFeature ==
    ~token =>
        /\ ~TokenRequest(out)
        /\ poll_mapping = Empty
        /\ last.handler = "on_reaction_add" => ~Made(out, "groupme.post", "reaction")

\* C27: the question of a poll created on the other platform is never
\* longer than that platform's ceiling: 160 characters for the subject of a
\* GroupMe poll, 300 for the question of a Discord poll.
C27_QuestionWithinCeiling ==
    \A i \in DOMAIN out :
        /\ (out[i].api = "groupme.poll.create" /\ out[i].kind = "poll")
               => Len(out[i].text) <= GroupMeSubjectCap
        /\ (out[i].api = "discord.send" /\ out[i].kind = "poll")
               => Len(out[i].text) <= 300

\* the number of calls to api of that kind among calls
Count(calls, api, kind) ==
    Cardinality({i \in DOMAIN calls : calls[i].api = api /\ calls[i].kind = kind})

\* the requests that relay an event to the other platform
RelayRequests ==
    {<<"groupme.post", "chat">>, <<"groupme.post", "reaction">>,
     <<"groupme.post", "vote">>, <<"groupme.poll.create", "poll">>,
     <<"discord.send", "chat">>, <<"discord.send", "vote">>,
     <<"discord.send", "poll">>, <<"discord.send", "results">>}

\* the most requests of that kind the event of the last step asks for: one
\* per relayed item, none when the event is of another kind
Asked(api, kind) ==
    IF api = "groupme.post" /\ kind = "chat"
    THEN IF ~UserMessage(last) THEN 0
         ELSE IF last.attachments = 0 THEN 1 ELSE last.attachments
    ELSE IF api = "groupme.poll.create" THEN IF UserMessage(last) THEN 1 ELSE 0
    ELSE IF api = "groupme.post"
    THEN IF last.handler = "on_reaction_add" THEN 1 ELSE 0
    ELSE IF kind = "poll"
    THEN IF last.handler \in {"groupme_webhook", "on_message"} THEN 1 ELSE 0
    ELSE IF last.handler = "groupme_webhook" THEN 1 ELSE 0

CreatedAgain(source) ==
    /\ GroupPayload(last', "poll.created") /\ last'.tracked
    /\ last'.record \in DOMAIN active_polls
    /\ active_polls[last'.record].source = source

\* C31: poll.created for the GroupMe poll the bridge created from a Discord
\* poll sends no Discord poll and leaves the record and the mappings of
\* that poll unchanged.
C31_NotMirroredBack ==
    [][CreatedAgain("discord")
           => (~Succeeded(out', "discord.send", "poll") /\ UNCHANGED polls)]_vars

\* C32: every value of poll_mapping and of groupme_poll_mapping is the key
\* of a record in active_polls; removing a record removes the mapping
\* entries that refer to it.
C32_MappingsResolve ==
    /\ \A d \in DOMAIN poll_mapping : poll_mapping[d] \in DOMAIN active_polls
    /\ \A g \in DOMAIN groupme_poll_mapping :
           groupme_poll_mapping[g] \in DOMAIN active_polls

\* the step sent a vote notification for a GroupMe poll.vote event
VoteNoticeSent == GroupPayload(last', "poll.vote") /\ Made(out', "discord.send", "vote")

\* C33: a poll.vote event produces a vote notification only if the poll has
\* a record in active_polls when the event is handled: none after
\* poll.ended was processed, none after the 24 h cleanup removed the record.
C33_NoticeOnlyForRecord ==
    [][VoteNoticeSent
           => /\ last'.poll_id \in DOMAIN groupme_poll_mapping
              /\ groupme_poll_mapping[last'.poll_id] \in DOMAIN active_polls]_vars

\* C34: message_mapping and groupme_to_discord are mutual inverses in every
\* reachable state: message_mapping[d] = g exactly when
\* groupme_to_discord[g] = d, also after the same GroupMe message id was
\* delivered more than once.
C34_MutualInverses ==
    /\ \A g \in DOMAIN groupme_to_discord :
           /\ groupme_to_discord[g] \in DOMAIN message_mapping
           /\ message_mapping[groupme_to_discord[g]] = g
    /\ \A d \in DOMAIN message_mapping :
           /\ message_mapping[d] \in DOMAIN groupme_to_discord
           /\ groupme_to_discord[message_mapping[d]] = d

\* C35: a reaction of a user that targets a tracked poll with the emoji of
\* one of its options is not forwarded to GroupMe as a generic 'reacted'
\* message, whatever became of the vote notification.
C35_VoteNotAlsoReaction ==
    (/\ last.handler = "on_reaction_add" /\ ~last.bot /\ last.monitored
     /\ last.poll \in DOMAIN active_polls
     /\ EncodesOption(last.emoji, last.poll))
    => ~Succeeded(out, "groupme.post", "reaction")

\* the chat posts of the last step whose text holds the text of the message
TextCarriers ==
    {i \in ChatPosts : ~Blank(last.content) /\ Contains(out[i].text, Text(last.content))}

\* C36: a message of a user in the monitored channel that is no command and
\* no poll is relayed at most once: whatever its attachments and whether the
\* image upload succeeds, at most one post to GroupMe carries its text.
C36_RelayedAtMostOnce ==
    Relayed(last) => Cardinality(TextCarriers) <= 1

\* C37: while one context is in a loop over active_polls, no other context
\* inserts into or deletes from that dictionary, so no loop meets a
\* dictionary whose size changed.
C37_NoWriteDuringIteration ==
    [][iterating # Idle => active_polls' = active_polls]_vars

\* the poll a record stands for: the Discord message of a poll created on
\* Discord, the GroupMe poll of one created on GroupMe
Origin(record) ==
    IF record.source = "discord" THEN <<"discord", record.discord_message>>
    ELSE <<"groupme", record.groupme_poll_id>>

\* C38: distinct polls have distinct internal ids and distinct mapping keys:
\* no step gives the active_polls entry of a poll to another poll, and no
\* step hands the groupme_poll_mapping entry of a poll that stays active to
\* another record, also when the create response carries no poll id.
C38_DistinctKeys ==
    [][/\ \A p \in DOMAIN active_polls \cap DOMAIN active_polls' :
              Origin(active_polls'[p]) = Origin(active_polls[p])
       /\ \A g \in DOMAIN groupme_poll_mapping \cap DOMAIN groupme_poll_mapping' :
              groupme_poll_mapping[g] \in DOMAIN active_polls'
                  => groupme_poll_mapping'[g] = groupme_poll_mapping[g]]_vars

\* C39: a native GroupMe poll is created on Discord at most once: a
\* poll.created event for a poll id that is tracked by a record made from
\* GroupMe sends no second Discord poll and leaves that record unchanged.
C39_CreatedOnce ==
    [][CreatedAgain("groupme")
           => /\ ~Succeeded(out', "discord.send", "poll")
              /\ last'.record \in DOMAIN active_polls'
              /\ active_polls'[last'.record] = active_polls[last'.record]]_vars

====
